---- MODULE Spec2Model ----
(***************************************************************************)
(* Model of go-k8s-configmap-store: a key-value store kept in Kubernetes   *)
(* ConfigMaps.                                                             *)
(*                                                                         *)
(*   buffered variant     src/configmap-store.go   (informer + Commit)     *)
(*   synchronous variant  src/unnamed/part_000     (every write is pushed) *)
(*                                                                         *)
(* Strings are modelled as the sequence of their "."-separated segments,   *)
(* so that "store.k8s.jlandowner.com.a.x" is                               *)
(* <<"store","k8s","jlandowner","com","a","x">> and strings.Split(s, ".")  *)
(* is the sequence itself.  The empty string is <<"">>.                    *)
(*                                                                         *)
(* Go pointers are indices into two heaps: cms (the *corev1.ConfigMap      *)
(* objects) and stores (the *MapStore handles).  Heaps only grow.          *)
(***************************************************************************)
EXTENDS Integers, Sequences, FiniteSets, TLC

VARIABLES
    cms,        \* heap of ConfigMap objects: [name, data, isNil, rv]
    stores,     \* heap of MapStore handles: [configMap |-> index into cms, ...]
    LocalMaps,  \* buffered manager: logical name -> index into stores
    syncList,   \* the []*corev1.ConfigMap a reconciliation works on (indices into cms)
    phase,      \* position of the reconciliation / of the pure-function driver
    last,       \* the step a caller took last, with its arguments and what it returned
    remote,     \* the API server: qualified name -> [data, rv]
    rvClock,    \* the resourceVersion the API server handed out last
    indexer,    \* the informer's cache: qualified name -> index into cms
    pending,    \* a change notification is waiting for the event handler
    lock,       \* owner of the manager's lock, or Free
    pc,         \* per caller: where it is inside a manager call
    loc,        \* per caller: the local variables of that call
    localMaps   \* synchronous manager: logical name -> qualified name

sysVars == <<remote, rvClock, indexer, pending, lock, pc, loc>>

vars == <<cms, stores, LocalMaps, syncList, phase, last, sysVars, localMaps>>

\* the state only the buffered variant has
bufferedVars == <<LocalMaps, syncList, indexer, pending>>

----------------------------------------------------------------------------
(* Bounds of the model *)

\* reconciliations applied one after the other in SpecSyncLocalMap
MaxSyncs == 2

\* ConfigMap objects on the heap
MaxCM == 3

\* MapStore handles on the heap
MaxStores == 2

\* resourceVersions the API server hands out
MaxRV == 2

\* ConfigMap objects and MapStore handles on the heap, synchronous variant
MaxSyncCM == 4

MaxSyncStores == 3

----------------------------------------------------------------------------
(* Strings, names, field maps *)

namePrefix == <<"store", "k8s", "jlandowner", "com">>

EmptyString == <<"">>

\* namePrefix + "." + name
QualifiedName(name) == namePrefix \o name

\* A faulty extractBaseName, to test C20_DerivedKeys against: the first
\* element of the split.
extractBaseName_First(name) == <<name[1]>>

\* strings.Split(name, ".") and its last element
extractBaseName(name) == <<name[Len(name)]>>

Keys == {"hello"}
Vals == {"world"}

\* a Go map[string]string that is not nil: a function from some keys to values
FieldMaps == UNION {[K -> Vals] : K \in SUBSET Keys}

EmptyMap == [k \in {} |-> "world"]

MapPut(d, k, v) == [x \in (DOMAIN d) \cup {k} |-> IF x = k THEN v ELSE d[x]]

MapDel(d, k) == [x \in (DOMAIN d) \ {k} |-> d[x]]

\* a function without the key k
FnDel(f, k) == [x \in (DOMAIN f) \ {k} |-> f[x]]

FnPut(f, k, v) == [x \in (DOMAIN f) \cup {k} |-> IF x = k THEN v ELSE f[x]]

EmptyFn == [x \in {} |-> 0]

\* a corev1.ConfigMap value.  isNil: the Data field is the nil map; managed:
\* it carries the label namePrefix/managed = "true" of getLabels().
ConfigMap(name, data, rv) ==
    [name |-> name, data |-> data, isNil |-> (DOMAIN data = {}), rv |-> rv,
     managed |-> TRUE]

\* &corev1.ConfigMap{}
ZeroConfigMap ==
    [name |-> EmptyString, data |-> EmptyMap, isNil |-> TRUE, rv |-> 0,
     managed |-> FALSE]

\* what the API server stores of an object
Stored(data, rv, managed) == [data |-> data, rv |-> rv, managed |-> managed]

\* the object the API server returns for what it stores as r under the name qn
Returned(qn, r) == [ConfigMap(qn, r.data, r.rv) EXCEPT !.managed = r.managed]

SeqToSet(s) == {s[i] : i \in 1..Len(s)}

----------------------------------------------------------------------------
(* syncLocalMap, buffered variant (configmap-store.go:188-214) *)

\* A faulty loop body, to test C2_UpsertPass against: a registered name keeps
\* the object it had.
SyncUpsertOne_KeepCached(m, heap, cm) ==
    LET namekey == extractBaseName(heap[cm].name)
    IN  IF namekey \in DOMAIN m.lm
        THEN m
        ELSE [lm |-> FnPut(m.lm, namekey, Len(m.st) + 1),
              st |-> Append(m.st, [configMap |-> cm])]

\* One iteration of the "sync Add or Update" loop, for syncList[i]; m = [lm, st].
SyncUpsertOne(m, heap, cm) ==
    LET namekey == extractBaseName(heap[cm].name)
    IN  IF namekey \in DOMAIN m.lm
        THEN [lm |-> m.lm,
              st |-> [m.st EXCEPT ![m.lm[namekey]].configMap = cm]]
        ELSE [lm |-> FnPut(m.lm, namekey, Len(m.st) + 1),
              st |-> Append(m.st, [configMap |-> cm])]

RECURSIVE SyncUpsertPass(_, _, _, _)
SyncUpsertPass(m, heap, list, i) ==
    IF i > Len(list) THEN m
    ELSE SyncUpsertPass(SyncUpsertOne(m, heap, list[i]), heap, list, i + 1)

\* foundInCluster for the registry entry under key k
FoundInCluster(lm, st, heap, list, k) ==
    \E i \in 1..Len(list) : heap[st[lm[k]].configMap].name = heap[list[i]].name

\* A faulty loop body, to test C3_EvictionPass against: nothing is evicted.
SyncEvictOne_KeepAll(lm, st, heap, list, k) == lm

\* One iteration of the "sync Delete" loop, visiting the entry under key k.
SyncEvictOne(lm, st, heap, list, k) ==
    IF FoundInCluster(lm, st, heap, list, k)
    THEN lm
    ELSE FnDel(lm, extractBaseName(heap[st[lm[k]].configMap].name))

\* The "sync Delete" loop ranges over the Go map while deleting from it: the
\* entries are visited in any order, and an entry deleted before it is reached
\* is not visited.  The set of the registries the loop can end with.
RECURSIVE SyncEvictPass(_, _, _, _, _)
SyncEvictPass(lm, st, heap, list, todo) ==
    IF todo = {} THEN {lm}
    ELSE UNION { LET lm2 == SyncEvictOne(lm, st, heap, list, k)
                 IN  SyncEvictPass(lm2, st, heap, list, (todo \ {k}) \cap DOMAIN lm2)
                 : k \in todo }

\* syncLocalMap(localMap, syncList): the set of outcomes [lm, st]
syncLocalMap(lm, st, heap, list) ==
    LET up == SyncUpsertPass([lm |-> lm, st |-> st], heap, list, 1)
    IN  { [lm |-> e, st |-> up.st] :
            e \in SyncEvictPass(up.lm, up.st, heap, list, DOMAIN up.lm) }

----------------------------------------------------------------------------
(* SpecSyncLocalMap: syncLocalMap as a function of its two arguments.       *)
(* The registry starts as CreateNewMapStore leaves it (key n, object named  *)
(* namePrefix.n); the lists are lists of objects with distinct names, as a  *)
(* lister returns them, in any order.                                       *)

SyncNames == {<<"x">>, <<"y">>, <<"a", "x">>}

SyncData == {[k \in {"hello"} |-> "world"], [k \in {"hello"} |-> "v2"]}

\* op: the call (or its step); who: the caller; name, h, key, val: arguments;
\* ok, res: no error / the error or value returned; pre, post: what the call
\* found and what it left; registered: the name was in the registry when the
\* call looked it up first; remoteErr: the error of the call's remote Create;
\* inRegistry: the name was in the registry when that Create had failed;
\* dup, peerH: see CreateRemote; chain: see Upsert; n: calls so far; snap:
\* see GetConfigMapSync.
NoOp == [op |-> "none", who |-> "", name |-> EmptyString, h |-> 0, key |-> "",
         val |-> "", res |-> "", ok |-> TRUE, n |-> 0, pre |-> EmptyFn,
         post |-> EmptyFn, registered |-> FALSE, remoteErr |-> "",
         inRegistry |-> FALSE, dup |-> FALSE, peerH |-> 0, chain |-> 0,
         rv |-> 0, snap |-> 0]

Callers == {"c1", "c2"}

Free == "free"

NoLoc == [name |-> EmptyString, h |-> 0, res |-> 0, err |-> "",
          peerCreated |-> FALSE, peerH |-> 0, key |-> "", val |-> ""]

\* the system part of the state before anything ran
SysIdle ==
    /\ remote = EmptyFn
    /\ rvClock = 0
    /\ indexer = EmptyFn
    /\ pending = FALSE
    /\ lock = Free
    /\ pc = [c \in Callers |-> "idle"]
    /\ loc = [c \in Callers |-> NoLoc]
    /\ localMaps = EmptyFn

\* registry key -> name of the object cached under it
RegistryNames(lm, st, heap) == [k \in DOMAIN lm |-> heap[st[lm[k]].configMap].name]

\* registry key -> the handle registered and the object it caches
RegistryEntries(lm, st) ==
    [k \in DOMAIN lm |-> [h |-> lm[k], configMap |-> st[lm[k]].configMap]]

\* sequences without repetition over the set S
RECURSIVE Perms(_)
Perms(S) ==
    IF S = {} THEN {<<>>}
    ELSE UNION { {<<e>> \o p : p \in Perms(S \ {e})} : e \in S }

RECURSIVE HeapOf(_, _)
\* the objects of the sequence of names ns, with the data d[n] for the name n
HeapOf(ns, d) ==
    IF ns = <<>> THEN <<>>
    ELSE <<ConfigMap(QualifiedName(Head(ns)), d[Head(ns)], 1)>> \o HeapOf(Tail(ns), d)

\* some canonical enumeration of the set of names N
OrderOf(N) == CHOOSE p \in Perms(N) : TRUE

InitSyncLocalMap ==
    \E N \in SUBSET SyncNames :
      \E d0 \in SyncData :
        LET order == OrderOf(N)
        IN  /\ cms = HeapOf(order, [n \in N |-> d0])
            /\ stores = [i \in 1..Len(order) |-> [configMap |-> i]]
            /\ LocalMaps = [n \in N |-> CHOOSE i \in 1..Len(order) : order[i] = n]
            /\ syncList = <<>>
            /\ phase = "input"
            /\ last = NoOp
            /\ SysIdle

\* syncLocalMap(LocalMaps, R) for a list R of fresh objects
ApplySyncLocalMap ==
    /\ phase \in {"input", "synced"}
    /\ last.n < MaxSyncs
    /\ \E N \in SUBSET SyncNames :
         \E order \in Perms(N) :
           \E d \in SyncData :
             LET heap == cms \o HeapOf(order, [n \in N |-> d])
                 R    == [i \in 1..Len(order) |-> Len(cms) + i]
             IN  \E out \in syncLocalMap(LocalMaps, stores, heap, R) :
                   /\ cms' = heap
                   /\ syncList' = R
                   /\ LocalMaps' = out.lm
                   /\ stores' = out.st
                   /\ phase' = "synced"
                   /\ last' = [NoOp EXCEPT !.op = "syncLocalMap", !.n = last.n + 1,
                                            !.pre = RegistryNames(LocalMaps, stores, cms)]
                   /\ UNCHANGED <<sysVars, localMaps>>

NextSyncLocalMap == ApplySyncLocalMap

SpecSyncLocalMap == InitSyncLocalMap /\ [][NextSyncLocalMap]_vars

----------------------------------------------------------------------------
(* Claims about syncLocalMap (SpecSyncLocalMap) *)

\* the object cached by the registry entry under key k
Cached(k) == cms[stores[LocalMaps[k]].configMap]

Synced == phase = "synced" /\ last.op = "syncLocalMap"

\* the logical names of the items of the list the reconciliation was given
ListNames == {extractBaseName(cms[syncList[i]].name) : i \in 1..Len(syncList)}

\* Before the call every registry key was the logical name of its entry's
\* object, and no two items of the list share a logical name.  Both hold when
\* no logical name contains a "." .
DerivedNames ==
    /\ \A k \in DOMAIN last.pre : extractBaseName(last.pre[k]) = k
    /\ \A i, j \in 1..Len(syncList) :
          extractBaseName(cms[syncList[i]].name) = extractBaseName(cms[syncList[j]].name)
              => i = j

UpsertPassHolds ==
    \A i \in 1..Len(syncList) :
        LET key == extractBaseName(cms[syncList[i]].name)
        IN  /\ key \in DOMAIN LocalMaps
            /\ Cached(key) = cms[syncList[i]]

\* C2 as stated: after syncLocalMap(L, R) every item r of R is cached in L
\* under the logical name extractBaseName(r.name), name and field map equal to r.
C2_AsStated == Synced => UpsertPassHolds

\* C2 as amended: the same, when before the call every registry key was the
\* logical name derived from its entry's object and the items of R have
\* pairwise distinct logical names.
C2_UpsertPass == (Synced /\ DerivedNames) => UpsertPassHolds

\* A reconciliation that replaced the object of a registered name by one with
\* another field map and inserted a name that was not registered.
C2_Witness ==
    /\ Synced /\ DerivedNames
    /\ \E i, j \in 1..Len(syncList) :
          /\ extractBaseName(cms[syncList[i]].name) \in DOMAIN last.pre
          /\ extractBaseName(cms[syncList[j]].name) \notin DOMAIN last.pre
          /\ \E o \in 1..(syncList[1] - 1) :
                /\ cms[o].name = cms[syncList[i]].name
                /\ cms[o].data # cms[syncList[i]].data

----------------------------------------------------------------------------
(* The buffered variant (configmap-store.go): ConfigMapStoreManager with    *)
(* the informer of NewConfigMapStoreManager, MapStore, Commit.              *)
(*                                                                          *)
(* A manager call that makes a remote call is split where other goroutines  *)
(* can run in between: CreateNewMapStore into CreateCheck (the unlocked     *)
(* lookup), CreateRemote (Lock and the remote Create) and CreateInsert;     *)
(* Commit into CommitUpdate and CommitSync; the event handler resync into   *)
(* ResyncList and ResyncApply.                                              *)

LogicalNames == {<<"x">>}

\* cm.Data = map[string]string{"DATE": time.Now().String()}
InitialData == [k \in {"DATE"} |-> "now"]

Op(op) == [NoOp EXCEPT !.op = op]

Init ==
    /\ cms = <<>>
    /\ stores = <<>>
    /\ LocalMaps = EmptyFn
    /\ syncList = <<>>
    /\ phase = "idle"
    /\ last = NoOp
    /\ SysIdle

\* the name of the entity the handle h stands for
EntityOf(h) == cms[stores[h].configMap].name

(* CreateNewMapStore, lines 96-99: the registry is looked up before the lock
   is taken; a registered name is an error. *)
CreateCheck(c, n) ==
    /\ UNCHANGED localMaps
    /\ pc[c] = "idle"
    /\ IF n \in DOMAIN LocalMaps
       THEN /\ last' = [Op("CreateNewMapStore") EXCEPT
                            !.who = c, !.name = n, !.ok = FALSE,
                            !.res = "AlreadyInRegistry", !.registered = TRUE]
            /\ UNCHANGED <<pc, loc>>
       ELSE /\ pc' = [pc EXCEPT ![c] = "create"]
            /\ loc' = [loc EXCEPT ![c] = [NoLoc EXCEPT !.name = n]]
            /\ last' = [Op("CreateNewMapStore.lookup") EXCEPT !.who = c, !.name = n]
    /\ UNCHANGED <<cms, stores, LocalMaps, syncList, phase, remote, rvClock,
                   indexer, pending, lock>>

\* the callers other than c that wait for the lock to create the same name
Peers(c) == {d \in Callers \ {c} : pc[d] = "create" /\ loc[d].name = loc[c].name}

\* what CreateNewMapStore(name) of caller c returns, as a record of the call.
\* dup: the call issued a remote Create although a call for the same name that
\* ran at the same time had created the object; peerH: the handle that call
\* returned.
CreateReturn(c, ok, h, res) ==
    [Op("CreateNewMapStore") EXCEPT
        !.who = c, !.name = loc[c].name, !.ok = ok, !.h = h, !.res = res,
        !.dup = loc[c].peerCreated, !.peerH = loc[c].peerH,
        !.chain = IF ok THEN 1 ELSE 0]

(* CreateNewMapStore, lines 101-115: Lock, build the object, remote Create.
   AlreadyExists returns c.GetMapStore(name); any other error is returned. *)
CreateRemote(c) ==
    /\ UNCHANGED localMaps
    /\ pc[c] = "create"
    /\ lock = Free
    /\ LET n  == loc[c].name
           qn == QualifiedName(n)
           created == [d \in Callers |->
                          IF d \in Peers(c) THEN [loc[d] EXCEPT !.peerCreated = TRUE]
                          ELSE loc[d]]
       IN  \/ /\ qn \in DOMAIN remote      \* AlreadyExists
              /\ last' = IF n \in DOMAIN LocalMaps
                         THEN [CreateReturn(c, TRUE, LocalMaps[n], "") EXCEPT
                                  !.remoteErr = "AlreadyExists", !.inRegistry = TRUE]
                         ELSE [CreateReturn(c, FALSE, 0, "NotInRegistry") EXCEPT
                                  !.remoteErr = "AlreadyExists"]
              /\ pc' = [pc EXCEPT ![c] = "idle"]
              /\ loc' = [loc EXCEPT ![c] = NoLoc]
              /\ UNCHANGED <<cms, remote, rvClock, lock>>
           \/ /\ qn \notin DOMAIN remote    \* created
              /\ rvClock < MaxRV
              /\ Len(cms) < MaxCM
              /\ rvClock' = rvClock + 1
              /\ remote' = FnPut(remote, qn, Stored(InitialData, rvClock + 1, TRUE))
              /\ cms' = Append(cms, ConfigMap(qn, InitialData, rvClock + 1))
              /\ loc' = [created EXCEPT ![c].res = Len(cms) + 1]
              /\ pc' = [pc EXCEPT ![c] = "create_insert"]
              /\ lock' = c
              /\ last' = [Op("CreateNewMapStore.create") EXCEPT !.who = c, !.name = n]
           \/ /\ last' = [CreateReturn(c, FALSE, 0, "RemoteCallFailure") EXCEPT
                             !.remoteErr = "RemoteCallFailure"]
              /\ pc' = [pc EXCEPT ![c] = "idle"]
              /\ loc' = [loc EXCEPT ![c] = NoLoc]
              /\ UNCHANGED <<cms, remote, rvClock, lock>>
    /\ UNCHANGED <<stores, LocalMaps, syncList, phase, indexer, pending>>

(* CreateNewMapStore, lines 117-120: register the new handle, unlock, return. *)
CreateInsert(c) ==
    /\ UNCHANGED localMaps
    /\ pc[c] = "create_insert"
    /\ Len(stores) < MaxStores
    /\ LET n == loc[c].name
           h == Len(stores) + 1
       IN  /\ stores' = Append(stores, [configMap |-> loc[c].res])
           /\ LocalMaps' = FnPut(LocalMaps, n, h)
           /\ last' = CreateReturn(c, TRUE, h, "")
           /\ loc' = [d \in Callers |->
                        IF d = c THEN NoLoc
                        ELSE IF d \in Peers(c) THEN [loc[d] EXCEPT !.peerH = h]
                        ELSE loc[d]]
    /\ pc' = [pc EXCEPT ![c] = "idle"]
    /\ lock' = Free
    /\ UNCHANGED <<cms, syncList, phase, remote, rvClock, indexer, pending>>

\* GetMapStore(name), lines 142-148: what it returns
GetMapStoreResult(n) ==
    IF n \in DOMAIN LocalMaps
    THEN [h |-> LocalMaps[n], ok |-> TRUE]
    ELSE [h |-> 0, ok |-> FALSE]

(* GetMapStore reads the registry and changes nothing. *)
GetMapStore(n) ==
    /\ GetMapStoreResult(n).ok \in BOOLEAN
    /\ UNCHANGED vars

(* MapStore.Upsert, lines 158-167.
   chain = 2: the call before was the create call that returned this handle,
   and this call writes hello = world. *)
Upsert(h, k, v) ==
    /\ UNCHANGED localMaps
    /\ h \in 1..Len(stores)
    /\ LET p == stores[h].configMap
       IN  cms' = [cms EXCEPT ![p] = [@ EXCEPT !.data = MapPut(@, k, v),
                                               !.isNil = FALSE]]
    /\ last' = [Op("Upsert") EXCEPT
                   !.h = h, !.key = k, !.val = v, !.name = EntityOf(h),
                   !.chain = IF /\ last.op = "CreateNewMapStore" /\ last.chain = 1
                                /\ last.h = h /\ k = "hello" /\ v = "world"
                             THEN 2 ELSE 0]
    /\ UNCHANGED <<stores, LocalMaps, syncList, phase, sysVars>>

(* MapStore.Delete, lines 170-175: it has no result.
   pre: the field map the call found. *)
Delete(h, k) ==
    /\ UNCHANGED localMaps
    /\ h \in 1..Len(stores)
    /\ LET p == stores[h].configMap
       IN  /\ cms' = [cms EXCEPT ![p].data = MapDel(@, k)]
           /\ last' = [Op("Delete") EXCEPT
                          !.h = h, !.key = k, !.res = "",
                          !.pre = cms[p].data, !.post = MapDel(cms[p].data, k)]
    /\ UNCHANGED <<stores, LocalMaps, syncList, phase, sysVars>>

\* MapStore.Get(key), lines 178-181: what it returns
GetResult(h, k) ==
    LET d == cms[stores[h].configMap].data
    IN  IF k \in DOMAIN d THEN [val |-> d[k], ok |-> TRUE]
        ELSE [val |-> "", ok |-> FALSE]

(* MapStore.Get reads the cached object and changes nothing. *)
Get(h, k) ==
    /\ h \in 1..Len(stores)
    /\ GetResult(h, k).ok \in BOOLEAN
    /\ UNCHANGED vars

\* what the API server answers to Update(obj): "" (done), NotFound or Conflict
UpdateError(obj) ==
    IF obj.name \notin DOMAIN remote THEN "NotFound"
    ELSE IF obj.rv # 0 /\ obj.rv # remote[obj.name].rv THEN "Conflict"
    ELSE ""

(* Commit, line 152: the remote Update, obj being what the call reads of
   m.configMap.  The client returns a fresh object: the stored one, or the
   zero ConfigMap with the error.  An Update that changes nothing keeps the
   resourceVersion.
   chain = 3: the call before was the Upsert with chain = 2 on this handle. *)
CommitUpdateOf(c, h, obj) ==
    /\ UNCHANGED localMaps
    /\ pc[c] = "idle"
    /\ Len(cms) < MaxCM
    /\ LET err == UpdateError(obj)
           same == err = "" /\ remote[obj.name].data = obj.data
           rv == IF same THEN remote[obj.name].rv ELSE rvClock + 1
           ch == IF last.op = "Upsert" /\ last.chain = 2 /\ last.h = h THEN 3 ELSE 0
       IN  \/ /\ err = ""
              /\ same \/ rvClock < MaxRV
              /\ rvClock' = IF same THEN rvClock ELSE rvClock + 1
              /\ remote' = [remote EXCEPT ![obj.name] = Stored(obj.data, rv, obj.managed)]
              /\ cms' = Append(cms, Returned(obj.name, Stored(obj.data, rv, obj.managed)))
              /\ loc' = [loc EXCEPT ![c] = [NoLoc EXCEPT
                            !.h = h, !.res = Len(cms) + 1, !.name = obj.name]]
              /\ last' = [Op("Commit.update") EXCEPT
                             !.who = c, !.h = h, !.name = obj.name, !.chain = ch]
           \/ /\ \E e \in {err, "RemoteCallFailure"} :
                    /\ e # ""
                    /\ loc' = [loc EXCEPT ![c] = [NoLoc EXCEPT
                                  !.h = h, !.res = Len(cms) + 1, !.err = e,
                                  !.name = obj.name]]
                    /\ last' = [Op("Commit.update") EXCEPT
                                   !.who = c, !.h = h, !.name = obj.name,
                                   !.ok = FALSE, !.res = e]
              /\ cms' = Append(cms, ZeroConfigMap)
              /\ UNCHANGED <<remote, rvClock>>
    /\ pc' = [pc EXCEPT ![c] = "commit_sync"]
    /\ UNCHANGED <<stores, LocalMaps, syncList, phase, indexer, pending, lock>>

(* Commit, line 152, reading m.configMap as it is *)
CommitUpdate(c, h) ==
    /\ h \in 1..Len(stores)
    /\ CommitUpdateOf(c, h, cms[stores[h].configMap])

(* Commit, lines 153-154: syncLocalMap(c.LocalMaps, {ret}); return err.
   name: the name of the object the Update was called with; pre, post: the
   registry syncLocalMap was called with and the one it left; rv: the
   resourceVersion of the object the Update returned.
   chain = 4: the step before was this call's Update, with chain = 3. *)
CommitSync(c) ==
    /\ UNCHANGED localMaps
    /\ pc[c] = "commit_sync"
    /\ \E out \in syncLocalMap(LocalMaps, stores, cms, <<loc[c].res>>) :
          /\ Len(out.st) <= MaxStores
          /\ LocalMaps' = out.lm
          /\ stores' = out.st
          /\ last' = [Op("Commit") EXCEPT
                         !.who = c, !.h = loc[c].h, !.ok = (loc[c].err = ""),
                         !.res = loc[c].err,
                         !.pre = RegistryEntries(LocalMaps, stores),
                         !.post = RegistryEntries(out.lm, out.st),
                         !.name = loc[c].name,
                         !.rv = cms[loc[c].res].rv,
                         !.chain = IF /\ last.op = "Commit.update" /\ last.who = c
                                      /\ last.chain = 3
                                   THEN 4 ELSE 0]
    /\ pc' = [pc EXCEPT ![c] = "idle"]
    /\ loc' = [loc EXCEPT ![c] = NoLoc]
    /\ UNCHANGED <<cms, syncList, phase, remote, rvClock, indexer, pending, lock>>

(* The shared informer (lines 54-55, 67, 80-84) learns of a change of the
   object named qn: its cache gets a fresh copy of the object, or drops it. *)
InformerObserve(qn) ==
    /\ UNCHANGED localMaps
    /\ \/ /\ qn \in DOMAIN remote
          /\ qn \in DOMAIN indexer => cms[indexer[qn]].rv # remote[qn].rv
          /\ Len(cms) < MaxCM
          /\ cms' = Append(cms, Returned(qn, remote[qn]))
          /\ indexer' = FnPut(indexer, qn, Len(cms) + 1)
       \/ /\ qn \notin DOMAIN remote
          /\ qn \in DOMAIN indexer
          /\ indexer' = FnDel(indexer, qn)
          /\ UNCHANGED cms
    /\ pending' = TRUE
    /\ UNCHANGED <<stores, LocalMaps, syncList, phase, last, remote, rvClock,
                   lock, pc, loc>>

\* The selector expression of getLabelSelector, line 217, as labels.Parse
\* reads it: the key, the operator, and the tokens of the value set.
SelectorExpression == <<"managed", "in", "true">>

\* labels.Parse: after the operator "in" the value set has to open with "(";
\* anything else is a parse error.
ParseError(expr) == expr[2] = "in" /\ expr[3] # "("

\* getLabelSelector, lines 216-222: labels.NewSelector(), which selects every
\* object, when the expression does not parse
getLabelSelector ==
    IF ParseError(SelectorExpression) THEN "everything" ELSE "managed"

\* Selector.Matches(labels of obj)
Matches(selector, obj) == selector = "everything" \/ obj.managed

\* listener.List(labelSelector): the names of the cached objects it returns
Listed == {qn \in DOMAIN indexer : Matches(getLabelSelector, cms[indexer[qn]])}

(* resync, lines 58-63: an event handler runs (for a change notification, or
   for the periodic resync of a cached object) and lists the informer's cache;
   the lister returns the cached objects themselves, in any order.
   phase: "idle", no handler runs; "listed", a handler is between List and
   syncLocalMap; "closing" and "closing_listed", the same once stopCh is
   closed; "stopped", informer.Run has returned. *)
ResyncList ==
    /\ UNCHANGED localMaps
    /\ phase \in {"idle", "closing"}
    /\ pending \/ DOMAIN indexer # {}
    /\ \E order \in Perms(Listed) :
          syncList' = [i \in 1..Len(order) |-> indexer[order[i]]]
    /\ phase' = IF phase = "idle" THEN "listed" ELSE "closing_listed"
    /\ pending' = FALSE
    /\ UNCHANGED <<cms, stores, LocalMaps, last, remote, rvClock, indexer,
                   lock, pc, loc>>

\* A faulty ResyncApply, to test C25_StoppedInformer against: a handler
\* runs although the informer has stopped.
ResyncApply_AfterStop ==
    /\ UNCHANGED localMaps
    /\ phase \in {"listed", "closing_listed", "stopped"}
    /\ \E out \in syncLocalMap(LocalMaps, stores, cms, syncList) :
          /\ Len(out.st) <= MaxStores
          /\ LocalMaps' = out.lm
          /\ stores' = out.st
    /\ syncList' = <<>>
    /\ phase' = IF phase = "listed" THEN "idle"
                ELSE IF phase = "closing_listed" THEN "closing" ELSE "stopped"
    /\ UNCHANGED <<cms, last, remote, rvClock, indexer, pending, lock, pc, loc>>

(* resync, line 64: syncLocalMap(maps, ret) *)
ResyncApply ==
    /\ UNCHANGED localMaps
    /\ phase \in {"listed", "closing_listed"}
    /\ \E out \in syncLocalMap(LocalMaps, stores, cms, syncList) :
          /\ Len(out.st) <= MaxStores
          /\ LocalMaps' = out.lm
          /\ stores' = out.st
    /\ syncList' = <<>>
    /\ phase' = IF phase = "listed" THEN "idle" ELSE "closing"
    /\ UNCHANGED <<cms, last, remote, rvClock, indexer, pending, lock, pc, loc>>

\* the steps of the callers CS on the names NS, and of the informer
NextOf(CS, NS) ==
    \/ \E c \in CS, n \in NS : CreateCheck(c, n)
    \/ \E c \in CS : CreateRemote(c)
    \/ \E c \in CS : CreateInsert(c)
    \/ \E n \in NS : GetMapStore(n)
    \/ \E h \in 1..MaxStores, k \in Keys, v \in Vals : Upsert(h, k, v)
    \/ \E h \in 1..MaxStores, k \in Keys : Delete(h, k)
    \/ \E h \in 1..MaxStores, k \in Keys : Get(h, k)
    \/ \E c \in CS, h \in 1..MaxStores : CommitUpdate(c, h)
    \/ \E c \in CS : CommitSync(c)
    \/ \E n \in NS : InformerObserve(QualifiedName(n))
    \/ ResyncList
    \/ ResyncApply

Next == NextOf(Callers, LogicalNames)

Spec == Init /\ [][Next]_vars

----------------------------------------------------------------------------
(* SpecLifecycle: the buffered variant with DeleteMapStore and with other   *)
(* clients of the API server, which create and delete ConfigMaps of the     *)
(* namespace: a managed one of another store, and one without the label.    *)

\* the objects other clients of the API server create
ExternalObjects ==
    { [name |-> QualifiedName(<<"y">>), managed |-> TRUE],
      [name |-> <<"kube-root-ca", "crt">>, managed |-> FALSE] }

\* the names an object of the namespace can have
ObjectNames ==
    {QualifiedName(n) : n \in LogicalNames} \cup {o.name : o \in ExternalObjects}

\* the manager's caller in SpecLifecycle
LifecycleCallers == {"c1"}

(* DeleteMapStore, lines 125-128: the registry is looked up before the lock
   is taken; a name that is not registered is an error.  n: the remote calls
   the call made. *)
DeleteCheck(c, n) ==
    /\ UNCHANGED localMaps
    /\ pc[c] = "idle"
    /\ IF n \notin DOMAIN LocalMaps
       THEN /\ last' = [Op("DeleteMapStore") EXCEPT
                            !.who = c, !.name = n, !.ok = FALSE,
                            !.res = "NotInRegistry"]
            /\ UNCHANGED <<pc, loc>>
       ELSE /\ pc' = [pc EXCEPT ![c] = "delete"]
            /\ loc' = [loc EXCEPT ![c] = [NoLoc EXCEPT !.name = n, !.h = LocalMaps[n]]]
            /\ last' = [Op("DeleteMapStore.lookup") EXCEPT
                            !.who = c, !.name = n, !.registered = TRUE]
    /\ UNCHANGED <<cms, stores, LocalMaps, syncList, phase, remote, rvClock,
                   indexer, pending, lock>>

\* A faulty DeleteRemote, to test C11_DeleteOrder against: the name is
\* unregistered whatever the remote Delete answers.
DeleteRemote_Eager(c) ==
    /\ UNCHANGED localMaps
    /\ pc[c] = "delete"
    /\ lock = Free
    /\ LocalMaps' = FnDel(LocalMaps, loc[c].name)
    /\ last' = [Op("DeleteMapStore") EXCEPT
                   !.who = c, !.name = loc[c].name, !.ok = FALSE,
                   !.res = "RemoteCallFailure", !.registered = TRUE, !.n = 1]
    /\ pc' = [pc EXCEPT ![c] = "idle"]
    /\ loc' = [loc EXCEPT ![c] = NoLoc]
    /\ UNCHANGED <<cms, stores, syncList, phase, remote, rvClock, indexer,
                   pending, lock>>

(* DeleteMapStore, lines 129-135: Lock, remote Delete of m.configMap.Name;
   an error is returned. *)
DeleteRemote(c) ==
    /\ UNCHANGED localMaps
    /\ pc[c] = "delete"
    /\ lock = Free
    /\ LET qn == EntityOf(loc[c].h)
       IN  \/ /\ qn \in DOMAIN remote
              /\ remote' = FnDel(remote, qn)
              /\ lock' = c
              /\ pc' = [pc EXCEPT ![c] = "delete_unregister"]
              /\ last' = [Op("DeleteMapStore.delete") EXCEPT
                             !.who = c, !.name = loc[c].name, !.registered = TRUE,
                             !.n = 1]
              /\ UNCHANGED loc
           \/ /\ \E e \in {IF qn \in DOMAIN remote THEN "" ELSE "NotFound",
                           "RemoteCallFailure"} :
                    /\ e # ""
                    /\ last' = [Op("DeleteMapStore") EXCEPT
                                   !.who = c, !.name = loc[c].name, !.ok = FALSE,
                                   !.res = e, !.registered = TRUE, !.n = 1]
              /\ pc' = [pc EXCEPT ![c] = "idle"]
              /\ loc' = [loc EXCEPT ![c] = NoLoc]
              /\ UNCHANGED <<remote, lock>>
    /\ UNCHANGED <<cms, stores, LocalMaps, syncList, phase, rvClock, indexer,
                   pending>>

(* DeleteMapStore, lines 137-138: delete(c.LocalMaps, name), unlock, return. *)
DeleteUnregister(c) ==
    /\ UNCHANGED localMaps
    /\ pc[c] = "delete_unregister"
    /\ LocalMaps' = FnDel(LocalMaps, loc[c].name)
    /\ last' = [Op("DeleteMapStore") EXCEPT
                   !.who = c, !.name = loc[c].name, !.registered = TRUE, !.n = 1]
    /\ pc' = [pc EXCEPT ![c] = "idle"]
    /\ loc' = [loc EXCEPT ![c] = NoLoc]
    /\ lock' = Free
    /\ UNCHANGED <<cms, stores, syncList, phase, remote, rvClock, indexer, pending>>

(* Another client of the API server creates the object o. *)
RemoteCreate(o) ==
    /\ UNCHANGED localMaps
    /\ o.name \notin DOMAIN remote
    /\ rvClock < MaxRV
    /\ rvClock' = rvClock + 1
    /\ remote' = FnPut(remote, o.name, Stored(EmptyMap, rvClock + 1, o.managed))
    /\ last' = [Op("Remote.create") EXCEPT !.name = o.name]
    /\ UNCHANGED <<cms, stores, LocalMaps, syncList, phase, indexer, pending,
                   lock, pc, loc>>

(* Another client of the API server deletes the object named qn. *)
RemoteDelete(qn) ==
    /\ UNCHANGED localMaps
    /\ qn \in DOMAIN remote
    /\ remote' = FnDel(remote, qn)
    /\ last' = [Op("Remote.delete") EXCEPT !.name = qn]
    /\ UNCHANGED <<cms, stores, LocalMaps, syncList, phase, rvClock, indexer,
                   pending, lock, pc, loc>>

\* the steps of the manager's callers
ForegroundStep ==
    \/ \E c \in LifecycleCallers, n \in LogicalNames : CreateCheck(c, n)
    \/ \E c \in LifecycleCallers : CreateRemote(c)
    \/ \E c \in LifecycleCallers : CreateInsert(c)
    \/ \E c \in LifecycleCallers, n \in LogicalNames : DeleteCheck(c, n)
    \/ \E c \in LifecycleCallers : DeleteRemote(c)
    \/ \E c \in LifecycleCallers : DeleteUnregister(c)
    \/ \E c \in LifecycleCallers, h \in 1..MaxStores : CommitUpdate(c, h)
    \/ \E c \in LifecycleCallers : CommitSync(c)

\* the steps of the other clients of the API server
RemoteStep ==
    \/ \E o \in ExternalObjects : RemoteCreate(o)
    \/ \E n \in LogicalNames : RemoteDelete(QualifiedName(n))

NextLifecycle ==
    \/ \E c \in LifecycleCallers, n \in LogicalNames : CreateCheck(c, n)
    \/ \E c \in LifecycleCallers : CreateRemote(c)
    \/ \E c \in LifecycleCallers : CreateInsert(c)
    \/ \E c \in LifecycleCallers, n \in LogicalNames : DeleteCheck(c, n)
    \/ \E c \in LifecycleCallers : DeleteRemote(c)
    \/ \E c \in LifecycleCallers : DeleteUnregister(c)
    \/ \E c \in LifecycleCallers, h \in 1..MaxStores : CommitUpdate(c, h)
    \/ \E c \in LifecycleCallers : CommitSync(c)
    \/ \E o \in ExternalObjects : RemoteCreate(o)
    \/ \E n \in LogicalNames : RemoteDelete(QualifiedName(n))
    \/ \E qn \in ObjectNames : InformerObserve(qn)
    \/ ResyncList
    \/ ResyncApply

SpecLifecycle == Init /\ [][NextLifecycle]_vars

\* The informer's goroutine (lines 80-84) keeps running: a change of the
\* API server's objects reaches its cache, and a handler that can run does.
FairLifecycle ==
    /\ SpecLifecycle
    /\ WF_vars(\E qn \in ObjectNames : InformerObserve(qn))
    /\ WF_vars(ResyncList)
    /\ WF_vars(ResyncApply)

----------------------------------------------------------------------------
(* The synchronous variant (unnamed/part_000): ConfigMapStoreManager keeps  *)
(* localMaps, logical name -> name of the remote object; every MapStore is  *)
(* a handle of its own with its own copy of the object; Upsert and Delete   *)
(* push to the API server, Get reads from it.                               *)
(* A handle is [configMap, k8sclient]: k8sclient is FALSE for the nil       *)
(* client.  phase = "aborted": the process panicked.                        *)

SyncVals == {"world", "v2"}

InitSynchronous ==
    /\ cms = <<>>
    /\ stores = <<>>
    /\ LocalMaps = EmptyFn
    /\ syncList = <<>>
    /\ phase = "run"
    /\ last = NoOp
    /\ SysIdle

\* ConfigMaps(namespace).Get(name): the error, "" when the object is there
RemoteGetError(qn) == IF qn \in DOMAIN remote THEN "" ELSE "NotFound"

\* GetMapStore(ctx, name), lines 101-113, as the record of the call named op
GetMapStoreReturn(op, n) ==
    IF n \notin DOMAIN localMaps
    THEN [Op(op) EXCEPT !.name = n, !.ok = FALSE, !.res = "NotInRegistry"]
    ELSE IF RemoteGetError(localMaps[n]) # ""
    THEN [Op(op) EXCEPT !.name = n, !.ok = FALSE, !.res = "NotFound",
                        !.inRegistry = TRUE, !.n = 1]
    ELSE [Op(op) EXCEPT !.name = n, !.h = Len(stores) + 1,
                        !.inRegistry = TRUE, !.n = 1]

\* GetMapStore(ctx, name), lines 101-113: the heap after the call.  The new
\* handle carries the manager's client.
GetMapStoreHeap(n) ==
    IF n \in DOMAIN localMaps /\ RemoteGetError(localMaps[n]) = ""
    THEN LET qn == localMaps[n]
         IN  [cms |-> Append(cms, Returned(qn, remote[qn])),
              stores |-> Append(stores, [configMap |-> Len(cms) + 1,
                                         k8sclient |-> TRUE])]
    ELSE [cms |-> cms, stores |-> stores]

HeapFits(heap) == Len(heap.cms) <= MaxSyncCM /\ Len(heap.stores) <= MaxSyncStores

(* GetMapStore(ctx, name) called by the application *)
GetMapStoreSync(n) ==
    /\ phase = "run"
    /\ HeapFits(GetMapStoreHeap(n))
    /\ cms' = GetMapStoreHeap(n).cms
    /\ stores' = GetMapStoreHeap(n).stores
    /\ last' = GetMapStoreReturn("GetMapStore", n)
    /\ UNCHANGED <<phase, sysVars, localMaps, LocalMaps, syncList>>

(* CreateNewMapStore, lines 58-61: the unlocked lookup; a registered name
   returns c.GetMapStore(ctx, name). *)
CreateCheckSync(c, n) ==
    /\ phase = "run"
    /\ pc[c] = "idle"
    /\ IF n \in DOMAIN localMaps
       THEN /\ HeapFits(GetMapStoreHeap(n))
            /\ cms' = GetMapStoreHeap(n).cms
            /\ stores' = GetMapStoreHeap(n).stores
            /\ last' = [GetMapStoreReturn("CreateNewMapStore", n) EXCEPT
                            !.who = c, !.registered = TRUE]
            /\ UNCHANGED <<pc, loc>>
       ELSE /\ pc' = [pc EXCEPT ![c] = "create"]
            /\ loc' = [loc EXCEPT ![c] = [NoLoc EXCEPT !.name = n]]
            /\ last' = [Op("CreateNewMapStore.lookup") EXCEPT !.who = c, !.name = n]
            /\ UNCHANGED <<cms, stores>>
    /\ UNCHANGED <<phase, remote, rvClock, lock, localMaps, bufferedVars>>

(* CreateNewMapStore, lines 63-79: Lock, remote Create of an object without
   Data, register its name, return a handle that has no client. *)
CreateLockedSync(c) ==
    /\ phase = "run"
    /\ pc[c] = "create"
    /\ lock = Free
    /\ LET n  == loc[c].name
           qn == QualifiedName(n)
       IN  \/ /\ qn \in DOMAIN remote      \* AlreadyExists
              /\ HeapFits(GetMapStoreHeap(n))
              /\ cms' = GetMapStoreHeap(n).cms
              /\ stores' = GetMapStoreHeap(n).stores
              /\ last' = [GetMapStoreReturn("CreateNewMapStore", n) EXCEPT
                             !.who = c, !.remoteErr = "AlreadyExists", !.n = @ + 1]
              /\ UNCHANGED <<remote, rvClock, localMaps>>
           \/ /\ qn \notin DOMAIN remote    \* created
              /\ rvClock < MaxRV
              /\ Len(cms) < MaxSyncCM
              /\ Len(stores) < MaxSyncStores
              /\ rvClock' = rvClock + 1
              /\ remote' = FnPut(remote, qn, Stored(EmptyMap, rvClock + 1, TRUE))
              /\ localMaps' = FnPut(localMaps, n, qn)
              /\ cms' = Append(cms, ConfigMap(qn, EmptyMap, rvClock + 1))
              /\ stores' = Append(stores, [configMap |-> Len(cms) + 1,
                                           k8sclient |-> FALSE])
              /\ last' = [Op("CreateNewMapStore") EXCEPT
                             !.who = c, !.name = n, !.h = Len(stores) + 1, !.n = 1]
           \/ /\ last' = [Op("CreateNewMapStore") EXCEPT
                             !.who = c, !.name = n, !.ok = FALSE,
                             !.res = "RemoteCallFailure",
                             !.remoteErr = "RemoteCallFailure", !.n = 1]
              /\ UNCHANGED <<cms, stores, remote, rvClock, localMaps>>
    /\ pc' = [pc EXCEPT ![c] = "idle"]
    /\ loc' = [loc EXCEPT ![c] = NoLoc]
    /\ UNCHANGED <<phase, lock, bufferedVars>>

\* the object of a handle with the field map d
WithData(obj, d) == [obj EXCEPT !.data = d, !.isNil = FALSE]

(* Upsert, lines 126-131, and Delete, lines 148-153: after the field map of
   the handle's object was changed to d, the remote Update through the
   handle's client; m.configMap = ret when it succeeds.  rec: the record of
   the call.  A nil client panics. *)
PushSync(h, d, rec) ==
    LET p   == stores[h].configMap
        obj == WithData(cms[p], d)
        err == UpdateError(obj)
        same == err = "" /\ remote[obj.name].data = d
        rv  == IF same THEN remote[obj.name].rv ELSE rvClock + 1
        mutated == [cms EXCEPT ![p] = obj]
    IN  IF ~stores[h].k8sclient
        THEN /\ cms' = mutated
             /\ phase' = "aborted"
             /\ last' = [rec EXCEPT !.ok = FALSE, !.res = "panic", !.post = d]
             /\ UNCHANGED <<stores, remote, rvClock>>
        ELSE \/ /\ err = ""
                /\ same \/ rvClock < MaxRV
                /\ Len(cms) < MaxSyncCM
                /\ rvClock' = IF same THEN rvClock ELSE rvClock + 1
                /\ remote' = [remote EXCEPT ![obj.name] = Stored(d, rv, obj.managed)]
                /\ cms' = Append(mutated, Returned(obj.name, Stored(d, rv, obj.managed)))
                /\ stores' = [stores EXCEPT ![h].configMap = Len(cms) + 1]
                /\ last' = [rec EXCEPT !.post = d, !.n = 1]
                /\ UNCHANGED phase
             \/ /\ \E e \in {err, "RemoteCallFailure"} :
                      /\ e # ""
                      /\ last' = [rec EXCEPT !.ok = FALSE, !.res = e,
                                             !.post = d, !.n = 1]
                /\ cms' = mutated
                /\ UNCHANGED <<stores, remote, rvClock, phase>>

(* MapStore.Upsert, lines 116-132.  pre: the field map the call found;
   rv: the resourceVersion it found; chain = 2: the call before was a
   CreateNewMapStore that returned this handle without error. *)
UpsertSync(h, k, v) ==
    /\ phase = "run"
    /\ h \in 1..Len(stores)
    /\ LET obj == cms[stores[h].configMap]
       IN  PushSync(h, MapPut(obj.data, k, v),
                    [Op("Upsert") EXCEPT !.h = h, !.key = k, !.val = v,
                                         !.pre = obj.data, !.rv = obj.rv,
                                         !.chain = IF /\ last.op = "CreateNewMapStore"
                                                      /\ last.ok /\ last.h = h
                                                   THEN 2 ELSE 0])
    /\ UNCHANGED <<lock, pc, loc, localMaps, bufferedVars>>

(* MapStore.Delete, lines 135-154 *)
DeleteSync(h, k) ==
    /\ phase = "run"
    /\ h \in 1..Len(stores)
    /\ LET obj == cms[stores[h].configMap]
           rec == [Op("Delete") EXCEPT !.h = h, !.key = k, !.pre = obj.data,
                                       !.post = obj.data]
       IN  IF ~obj.isNil                          \* line 139
           THEN /\ last' = [rec EXCEPT !.ok = FALSE, !.res = "FieldNotFound"]
                /\ UNCHANGED <<cms, stores, remote, rvClock, phase>>
           ELSE IF k \notin DOMAIN obj.data       \* line 142
           THEN /\ last' = [rec EXCEPT !.ok = FALSE, !.res = "FieldNotFound"]
                /\ UNCHANGED <<cms, stores, remote, rvClock, phase>>
           ELSE PushSync(h, MapDel(obj.data, k), rec)
    /\ UNCHANGED <<lock, pc, loc, localMaps, bufferedVars>>

\* MapStore.Get(ctx, key), lines 157-172: what it returns
GetResultSync(h, k) ==
    LET qn == cms[stores[h].configMap].name
    IN  IF ~stores[h].k8sclient THEN [val |-> "", res |-> "panic"]
        ELSE IF RemoteGetError(qn) # "" THEN [val |-> "", res |-> "NotFound"]
        ELSE IF DOMAIN remote[qn].data = {} THEN [val |-> "", res |-> "FieldNotFound"]
        ELSE IF k \notin DOMAIN remote[qn].data THEN [val |-> "", res |-> "FieldNotFound"]
        ELSE [val |-> remote[qn].data[k], res |-> ""]

(* MapStore.Get changes nothing, unless the handle's nil client panics. *)
GetSync(h, k) ==
    /\ phase = "run"
    /\ h \in 1..Len(stores)
    /\ IF GetResultSync(h, k).res = "panic"
       THEN /\ phase' = "aborted"
            /\ last' = [Op("Get") EXCEPT !.h = h, !.key = k, !.ok = FALSE,
                                         !.res = "panic"]
            /\ UNCHANGED <<cms, stores, sysVars, localMaps, LocalMaps, syncList>>
       ELSE UNCHANGED vars

(* MapStore.GetConfigMap, lines 175-177: the value *m.configMap.  The copy
   of the struct holds the same Data map as the object, unless that is nil.
   snap: the object whose Data map the returned record holds, 0 for nil. *)
GetConfigMapSync(h) ==
    /\ phase = "run"
    /\ h \in 1..Len(stores)
    /\ LET p == stores[h].configMap
       IN  last' = [Op("GetConfigMap") EXCEPT
                       !.h = h, !.name = cms[p].name, !.rv = cms[p].rv,
                       !.pre = cms[p].data,
                       !.snap = IF cms[p].isNil THEN 0 ELSE p]
    /\ UNCHANGED <<cms, stores, phase, sysVars, localMaps, LocalMaps, syncList>>

(* The caller writes Data[k] = v in the record GetConfigMap has just
   returned.  pre: the field map of the handle before the write. *)
WriteReturnedRecord(k, v) ==
    /\ phase = "run"
    /\ last.op = "GetConfigMap"
    /\ last.snap # 0
    /\ cms' = [cms EXCEPT ![last.snap].data = MapPut(@, k, v)]
    /\ last' = [Op("GetConfigMap.write") EXCEPT
                   !.h = last.h, !.key = k, !.val = v, !.snap = last.snap,
                   !.pre = cms[stores[last.h].configMap].data]
    /\ UNCHANGED <<stores, phase, sysVars, localMaps, LocalMaps, syncList>>

(* Another process creates the managed object of the name n. *)
ExternalCreate(n) ==
    /\ phase = "run"
    /\ QualifiedName(n) \notin DOMAIN remote
    /\ rvClock < MaxRV
    /\ rvClock' = rvClock + 1
    /\ remote' = FnPut(remote, QualifiedName(n), Stored(EmptyMap, rvClock + 1, TRUE))
    /\ UNCHANGED <<cms, stores, phase, last, lock, pc, loc, localMaps, bufferedVars>>

NextSynchronous ==
    \/ \E c \in Callers, n \in LogicalNames : CreateCheckSync(c, n)
    \/ \E c \in Callers : CreateLockedSync(c)
    \/ \E n \in LogicalNames : GetMapStoreSync(n)
    \/ \E h \in 1..MaxSyncStores, k \in Keys, v \in SyncVals : UpsertSync(h, k, v)
    \/ \E h \in 1..MaxSyncStores, k \in Keys : DeleteSync(h, k)
    \/ \E h \in 1..MaxSyncStores, k \in Keys : GetSync(h, k)
    \/ \E n \in LogicalNames : ExternalCreate(n)
    \/ \E h \in 1..MaxSyncStores : GetConfigMapSync(h)
    \/ \E k \in Keys, v \in SyncVals : WriteReturnedRecord(k, v)

SpecSynchronous == InitSynchronous /\ [][NextSynchronous]_vars

----------------------------------------------------------------------------
(* Claims about the buffered variant (Spec) *)

\* the API server's object named qn holds the field k with the value v
RemoteHolds(qn, k, v) ==
    /\ qn \in DOMAIN remote
    /\ k \in DOMAIN remote[qn].data
    /\ remote[qn].data[k] = v

\* C1: after CreateNewMapStore(x), Upsert("hello", "world") on the handle it
\* returned and a Commit of that handle without error - the only calls made,
\* reconciliations running in between at will - the API server's object of x
\* holds hello = world.
C1_RoundTrip ==
    (last.op = "Commit" /\ last.chain = 4 /\ last.ok)
        => RemoteHolds(last.name, "hello", "world")

\* C4: when a call CreateNewMapStore(n) ran at the same time as another one
\* for the same unregistered name, only one of them issued a remote Create, and
\* both returned a handle of the object namePrefix.n.
C4_CreateOnce ==
    (last.op = "CreateNewMapStore" /\ (last.dup \/ last.peerH # 0))
        => /\ ~last.dup
           /\ last.ok
           /\ EntityOf(last.h) = QualifiedName(last.name)
           /\ EntityOf(last.peerH) = QualifiedName(last.name)

\* C5: CreateNewMapStore(n) for a name that is in the registry returns the
\* registered handle and no error (and makes no remote call).
C5_CreateRegistered ==
    (last.op = "CreateNewMapStore" /\ last.registered)
        => /\ last.ok
           /\ (last.name \in DOMAIN LocalMaps => last.h = LocalMaps[last.name])

\* C7: as long as only reconciliations ran since Upsert(k, v) on a handle,
\* Get(k) on that handle returns (v, true).
C7_UpsertThenGet ==
    last.op = "Upsert"
        => GetResult(last.h, last.key) = [val |-> last.val, ok |-> TRUE]

\* C9: Delete(k) on an entity whose field map does not hold k returns the
\* field-not-found error and leaves the field map as it was.
C9_DeleteAbsent ==
    (last.op = "Delete" /\ last.key \notin DOMAIN last.pre)
        => /\ last.res = "FieldNotFound"
           /\ last.post = last.pre

----------------------------------------------------------------------------
(* Claims about the synchronous variant (SpecSynchronous) *)

\* the errors of a remote call
RemoteErrors == {"NotFound", "Conflict", "RemoteCallFailure"}

\* the field map and the resourceVersion the handle h holds
HandleData(h) == cms[stores[h].configMap].data

HandleRV(h) == cms[stores[h].configMap].rv

\* C6: a CreateNewMapStore(n) whose remote Create answered AlreadyExists
\* returns, without error, a handle of the remote object of n.
C6_AdoptExisting ==
    (last.op = "CreateNewMapStore" /\ last.remoteErr = "AlreadyExists")
        => /\ last.ok
           /\ EntityOf(last.h) = QualifiedName(last.name)

\* C8: a Delete(k) on a handle whose field map holds k, no remote call
\* failing, returns no error, the handle's field map is without k, and a
\* Get(k) on the handle then returns the field-not-found error.
C8_DeleteHeld ==
    (last.op = "Delete" /\ last.key \in DOMAIN last.pre
                        /\ last.res \notin RemoteErrors)
        => /\ last.ok
           /\ last.key \notin DOMAIN HandleData(last.h)
           /\ GetResultSync(last.h, last.key).res = "FieldNotFound"

\* C12: GetMapStore(n) makes no remote call; it returns without error when n
\* is in the registry and the not-in-the-registry error otherwise.
C12_PureLookup ==
    last.op = "GetMapStore"
        => /\ last.n = 0
           /\ last.inRegistry => last.ok
           /\ ~last.inRegistry => last.res = "NotInRegistry"

\* C13: an Upsert(k, v) on the handle a CreateNewMapStore has just returned
\* without error does not abort the process, and the handle's field map then
\* holds k = v.
C13_UpsertAfterCreate ==
    (last.op = "Upsert" /\ last.chain = 2)
        => /\ last.res # "panic"
           /\ phase # "aborted"
           /\ last.key \in DOMAIN HandleData(last.h)
           /\ HandleData(last.h)[last.key] = last.val

\* C14: writing a field of the record GetConfigMap returned leaves the field
\* map of the handle as it was.
C14_IsolatedCopy ==
    last.op = "GetConfigMap.write" => HandleData(last.h) = last.pre

\* C10: after an Upsert(k, v) whose remote Update failed, the handle's field
\* map and resourceVersion are the ones the call found.
C10_FailedUpsert ==
    (last.op = "Upsert" /\ last.res \in RemoteErrors)
        => /\ HandleData(last.h) = last.pre
           /\ HandleRV(last.h) = last.rv

----------------------------------------------------------------------------
(* Claims about the buffered variant with DeleteMapStore (SpecLifecycle) *)

\* C11: a step in which DeleteMapStore(n) returns: with an error it leaves
\* the registry and the API server's objects as they were, and it made no
\* remote call if n was not registered when the call looked it up; without an
\* error it made the remote Delete before, and it removes n from the registry.
C11_DeleteOrder ==
    [][(last' # last /\ last'.op = "DeleteMapStore")
        => IF last'.ok
           THEN /\ last'.n = 1
                /\ pc[last'.who] = "delete_unregister"
                /\ LocalMaps' = FnDel(LocalMaps, last'.name)
           ELSE /\ LocalMaps' = LocalMaps
                /\ remote' = remote
                /\ ~last'.registered
                      => last'.n = 0 /\ last'.res = "NotInRegistry"]_vars

\* DeleteMapStore(n) has returned the error of its remote Delete, and n is
\* registered.
C11_Witness ==
    /\ last.op = "DeleteMapStore"
    /\ last.res = "RemoteCallFailure"
    /\ last.n = 1
    /\ last.name \in DOMAIN LocalMaps

\* C15: a Commit(e) that returned without error left every registry entry
\* other than the one of e as it was: the name registered, with the same
\* handle caching the same object.
C15_CommitFrame ==
    (last.op = "Commit" /\ last.ok)
        => \A k \in DOMAIN last.pre :
              k # extractBaseName(last.name)
                  => k \in DOMAIN last.post /\ last.post[k] = last.pre[k]

\* C16: a Commit(e) whose remote Update failed returns that error and
\* leaves the registry as it was: the same names, each with the same handle
\* caching the same object.
C16_FailedCommit ==
    (last.op = "Commit" /\ ~last.ok)
        => /\ last.res \in {"NotFound", "Conflict", "RemoteCallFailure"}
           /\ last.post = last.pre

\* C17: as long as only the informer and reconciliations ran since
\* CreateNewMapStore(n) returned a handle, and the API server has the object
\* of n, n is registered with that handle.
C17_CreatedStays ==
    (last.op = "CreateNewMapStore" /\ last.ok
        /\ QualifiedName(last.name) \in DOMAIN remote)
        => /\ last.name \in DOMAIN LocalMaps
           /\ LocalMaps[last.name] = last.h

\* C18: as long as only the informer and reconciliations ran since
\* DeleteMapStore(n) returned without error, n is not registered.
C18_DeletedStaysAbsent ==
    (last.op = "DeleteMapStore" /\ last.ok)
        => last.name \notin DOMAIN LocalMaps

\* the logical names of the API server's objects that carry the managed label
ManagedNames == {extractBaseName(qn) : qn \in {q \in DOMAIN remote : remote[q].managed}}

\* the informer's cache holds the API server's objects as they are, and no
\* notification or reconciliation is under way
Settled ==
    /\ DOMAIN indexer = DOMAIN remote
    /\ \A qn \in DOMAIN indexer : cms[indexer[qn]].rv = remote[qn].rv
    /\ ~pending
    /\ phase = "idle"

\* C19: when from some point on neither a caller of the manager nor another
\* client of the API server takes a step, and the notifications get processed
\* again and again, then from some point on the registry's keys are the
\* logical names of the managed objects of the API server.
C19_EventuallyMirror ==
    (<>[][~(ForegroundStep \/ RemoteStep)]_vars /\ []<>Settled)
        => <>[](DOMAIN LocalMaps = ManagedNames)

\* C20: every key of the registry is the logical name derived from the name
\* of the object its entry caches.
C20_DerivedKeys ==
    \A k \in DOMAIN LocalMaps : k = extractBaseName(Cached(k).name)

\* The registry holds x, registered by the CreateNewMapStore that has just
\* returned, beside an entry the reconciliation made.
C20_Witness ==
    /\ last.op = "CreateNewMapStore" /\ last.ok
    /\ last.name \in DOMAIN LocalMaps
    /\ LocalMaps[last.name] = last.h
    /\ Cardinality(DOMAIN LocalMaps) = 2

----------------------------------------------------------------------------
(* SpecStorageClient: syncLocalMap of the storage client                    *)
(* (configmap-storage.go:378-390) as a function of its two arguments.  The  *)
(* registry starts as CreateNewMapStorage leaves it; the lists are lists of *)
(* objects with distinct names, as a lister returns them, in any order.     *)

\* namePrefix of package storage
namePrefixStorage == <<"storage", "k8s", "jlandowner", "com">>

RECURSIVE HeapOfStorage(_, _)
\* the objects namePrefix.n of the sequence of names ns, with the data d[n]
HeapOfStorage(ns, d) ==
    IF ns = <<>> THEN <<>>
    ELSE <<ConfigMap(namePrefixStorage \o Head(ns), d[Head(ns)], 1)>>
            \o HeapOfStorage(Tail(ns), d)

\* One iteration of the loop, for the list item cm; m = [lm, st].  A registered
\* name and a new one alike get &MapStorage{cm, new(sync.RWMutex)}: a new
\* handle with a new lock.
SyncReplaceOne(m, heap, cm) ==
    LET namekey == extractBaseName(heap[cm].name)
    IN  IF namekey \in DOMAIN m.lm
        THEN [lm |-> [m.lm EXCEPT ![namekey] = Len(m.st) + 1],
              st |-> Append(m.st, [configMap |-> cm])]
        ELSE [lm |-> FnPut(m.lm, namekey, Len(m.st) + 1),
              st |-> Append(m.st, [configMap |-> cm])]

RECURSIVE SyncReplacePass(_, _, _, _)
SyncReplacePass(m, heap, list, i) ==
    IF i > Len(list) THEN m
    ELSE SyncReplacePass(SyncReplaceOne(m, heap, list[i]), heap, list, i + 1)

\* syncLocalMap(localMap, syncList) of the storage client: there is no
\* "sync Delete" loop
syncLocalMapStorage(lm, st, heap, list) ==
    SyncReplacePass([lm |-> lm, st |-> st], heap, list, 1)

InitStorageClient ==
    \E N \in SUBSET SyncNames :
      \E d0 \in SyncData :
        LET order == OrderOf(N)
        IN  /\ cms = HeapOfStorage(order, [n \in N |-> d0])
            /\ stores = [i \in 1..Len(order) |-> [configMap |-> i]]
            /\ LocalMaps = [n \in N |-> CHOOSE i \in 1..Len(order) : order[i] = n]
            /\ syncList = <<>>
            /\ phase = "input"
            /\ last = NoOp
            /\ SysIdle

\* syncLocalMap(LocalMaps, R) for a list R of fresh objects.
\* pre: the registry the call was given, name -> handle and cached object.
ApplySyncLocalMapStorage ==
    /\ phase \in {"input", "synced"}
    /\ last.n < MaxSyncs
    /\ \E N \in SUBSET SyncNames :
         \E order \in Perms(N) :
           \E d \in SyncData :
             LET heap == cms \o HeapOfStorage(order, [n \in N |-> d])
                 R    == [i \in 1..Len(order) |-> Len(cms) + i]
                 out  == syncLocalMapStorage(LocalMaps, stores, heap, R)
             IN  /\ cms' = heap
                 /\ syncList' = R
                 /\ LocalMaps' = out.lm
                 /\ stores' = out.st
                 /\ phase' = "synced"
                 /\ last' = [NoOp EXCEPT !.op = "syncLocalMap", !.n = last.n + 1,
                                          !.pre = RegistryEntries(LocalMaps, stores)]
                 /\ UNCHANGED <<sysVars, localMaps>>

NextStorageClient == ApplySyncLocalMapStorage

SpecStorageClient == InitStorageClient /\ [][NextStorageClient]_vars

----------------------------------------------------------------------------
(* Claims about syncLocalMap of the storage client (SpecStorageClient) *)

\* C21: after syncLocalMap(L, R), every logical name of an item of R that was
\* registered in L before the call is registered with the handle it had: a
\* handle got from the manager before the reconciliation is the one the
\* registry holds afterwards, caching the item.
C21_HandleKept ==
    Synced =>
        \A i \in 1..Len(syncList) :
            LET key == extractBaseName(cms[syncList[i]].name)
            IN  key \in DOMAIN last.pre
                    => /\ key \in DOMAIN LocalMaps
                       /\ LocalMaps[key] = last.pre[key].h

----------------------------------------------------------------------------
(* Claims about Commit and the version token (Spec) *)

\* C22: as long as only the informer and reconciliations ran since a
\* Commit(e) returned without error, and the API server's object of e is the
\* one that Commit's Update returned (nothing wrote to it since), the handle e
\* holds that object's resourceVersion and a second Commit(e) would not be
\* answered with Conflict.
C22_CommitRefreshes ==
    (/\ last.op = "Commit" /\ last.ok
     /\ last.name \in DOMAIN remote
     /\ remote[last.name].rv = last.rv)
        => /\ HandleRV(last.h) = last.rv
           /\ UpdateError(cms[stores[last.h].configMap]) # "Conflict"

----------------------------------------------------------------------------
(* Claims about the locks (SpecLifecycle, Spec) *)

\* C23: a step that changes the keyset of the registry is taken by the
\* caller that holds the manager's lock.
C23_KeysetUnderLock ==
    [][DOMAIN LocalMaps' # DOMAIN LocalMaps
          => \E c \in Callers : lock = c /\ pc'[c] # pc[c]]_vars

----------------------------------------------------------------------------
(* SpecEntityLock: the buffered variant with the lock of each MapStore.     *)
(* Upsert and Delete are split where the lock is held: the Lock, then the   *)
(* write and the deferred Unlock.  A goroutine holds the lock of a handle   *)
(* while it is between the two.  syncLocalMap waits until the locks of the  *)
(* handles it replaces the object of are free (the wait in the middle of    *)
(* its loop is moved to its start).                                         *)
(* A read of a Go map while another goroutine writes it is a data race: it  *)
(* finds the map as it was or as it will be, or the runtime ends the        *)
(* process with "concurrent map read and map write".                        *)

\* the caller c holds m.lock of the handle h: it is inside Upsert or Delete
HoldsEntityLock(c, h) == pc[c] \in {"upsert", "delete_field"} /\ loc[c].h = h

EntityLockFree(h) == \A c \in Callers : ~HoldsEntityLock(c, h)

(* MapStore.Upsert, lines 159-160: m.lock.Lock() *)
UpsertLock(c, h, k, v) ==
    /\ UNCHANGED localMaps
    /\ pc[c] = "idle"
    /\ h \in 1..Len(stores)
    /\ EntityLockFree(h)
    /\ pc' = [pc EXCEPT ![c] = "upsert"]
    /\ loc' = [loc EXCEPT ![c] = [NoLoc EXCEPT !.h = h, !.key = k, !.val = v]]
    /\ last' = [Op("Upsert.lock") EXCEPT !.who = c, !.h = h, !.key = k, !.val = v]
    /\ UNCHANGED <<cms, stores, LocalMaps, syncList, phase, remote, rvClock,
                   indexer, pending, lock>>

\* the object of the handle of c's Upsert or Delete, after its write
Written(c) ==
    LET obj == cms[stores[loc[c].h].configMap]
    IN  IF pc[c] = "upsert"
        THEN WithData(obj, MapPut(obj.data, loc[c].key, loc[c].val))
        ELSE [obj EXCEPT !.data = MapDel(obj.data, loc[c].key)]

(* MapStore.Upsert, lines 162-166, and the deferred Unlock *)
UpsertWrite(c) ==
    /\ UNCHANGED localMaps
    /\ pc[c] = "upsert"
    /\ cms' = [cms EXCEPT ![stores[loc[c].h].configMap] = Written(c)]
    /\ last' = [Op("Upsert") EXCEPT !.who = c, !.h = loc[c].h,
                                    !.key = loc[c].key, !.val = loc[c].val]
    /\ pc' = [pc EXCEPT ![c] = "idle"]
    /\ loc' = [loc EXCEPT ![c] = NoLoc]
    /\ UNCHANGED <<stores, LocalMaps, syncList, phase, remote, rvClock,
                   indexer, pending, lock>>

(* MapStore.Delete, lines 171-172: m.lock.Lock() *)
DeleteLock(c, h, k) ==
    /\ UNCHANGED localMaps
    /\ pc[c] = "idle"
    /\ h \in 1..Len(stores)
    /\ EntityLockFree(h)
    /\ pc' = [pc EXCEPT ![c] = "delete_field"]
    /\ loc' = [loc EXCEPT ![c] = [NoLoc EXCEPT !.h = h, !.key = k]]
    /\ last' = [Op("Delete.lock") EXCEPT !.who = c, !.h = h, !.key = k]
    /\ UNCHANGED <<cms, stores, LocalMaps, syncList, phase, remote, rvClock,
                   indexer, pending, lock>>

(* MapStore.Delete, line 174, and the deferred Unlock *)
DeleteWrite(c) ==
    /\ UNCHANGED localMaps
    /\ pc[c] = "delete_field"
    /\ cms' = [cms EXCEPT ![stores[loc[c].h].configMap] = Written(c)]
    /\ last' = [Op("Delete") EXCEPT !.who = c, !.h = loc[c].h, !.key = loc[c].key]
    /\ pc' = [pc EXCEPT ![c] = "idle"]
    /\ loc' = [loc EXCEPT ![c] = NoLoc]
    /\ UNCHANGED <<stores, LocalMaps, syncList, phase, remote, rvClock,
                   indexer, pending, lock>>

\* What a goroutine that reads m.configMap of the handle h without m.lock can
\* find: the object as it is, or as the Upsert or Delete that holds the lock
\* is about to leave it.
ObservedObjects(h) ==
    {cms[stores[h].configMap]} \cup {Written(c) : c \in {d \in Callers : HoldsEntityLock(d, h)}}

(* The runtime detects the unsynchronised access of the call op by c to the
   map that the holder of the lock of h writes, and ends the process. *)
FatalRace(c, op, h) ==
    /\ ~EntityLockFree(h)
    /\ last' = [Op(op) EXCEPT !.who = c, !.h = h, !.ok = FALSE,
                              !.res = "fatal: concurrent map access"]
    /\ pc' = [d \in Callers |-> "aborted"]
    /\ phase' = "aborted"
    /\ UNCHANGED <<cms, stores, LocalMaps, syncList, remote, rvClock, indexer,
                   pending, lock, loc>>

(* MapStore.Get, lines 178-181: m.configMap.Data[key], without m.lock *)
GetUnlocked(c, h, k) ==
    /\ UNCHANGED localMaps
    /\ pc[c] = "idle"
    /\ h \in 1..Len(stores)
    /\ \/ /\ \E obj \in ObservedObjects(h) :
                last' = [Op("Get") EXCEPT
                            !.who = c, !.h = h, !.key = k,
                            !.ok = (k \in DOMAIN obj.data),
                            !.val = IF k \in DOMAIN obj.data THEN obj.data[k] ELSE ""]
          /\ UNCHANGED <<cms, stores, LocalMaps, syncList, phase, remote,
                         rvClock, indexer, pending, lock, pc, loc>>
       \/ FatalRace(c, "Get", h)

(* MapStore.GetConfigMap, lines 184-186: the value *m.configMap, without
   m.lock.  The copy does not read the entries of the Data map.
   pre: the field map of the record returned. *)
GetConfigMapUnlocked(c, h) ==
    /\ UNCHANGED localMaps
    /\ pc[c] = "idle"
    /\ h \in 1..Len(stores)
    /\ \E obj \in ObservedObjects(h) :
          last' = [Op("GetConfigMap") EXCEPT
                      !.who = c, !.h = h, !.name = obj.name, !.rv = obj.rv,
                      !.pre = obj.data]
    /\ UNCHANGED <<cms, stores, LocalMaps, syncList, phase, remote, rvClock,
                   indexer, pending, lock, pc, loc>>

(* Commit, line 152: Update(ctx, m.configMap, ...) reads the object and its
   Data map without m.lock. *)
CommitUpdateUnlocked(c, h) ==
    /\ h \in 1..Len(stores)
    /\ \/ \E obj \in ObservedObjects(h) : CommitUpdateOf(c, h, obj)
       \/ /\ UNCHANGED localMaps
          /\ pc[c] = "idle"
          /\ FatalRace(c, "Commit.update", h)

\* the locks syncLocalMap(LocalMaps, list) takes in its loop (lines 192-194)
\* are free
ReplacedFree(list) ==
    \A i \in 1..Len(list) :
        LET namekey == extractBaseName(cms[list[i]].name)
        IN  namekey \in DOMAIN LocalMaps => EntityLockFree(LocalMaps[namekey])

(* Commit, lines 153-154, with the locks syncLocalMap takes *)
CommitSyncLocking(c) ==
    /\ pc[c] = "commit_sync"
    /\ ReplacedFree(<<loc[c].res>>)
    /\ CommitSync(c)

(* resync, line 64, with the locks syncLocalMap takes *)
ResyncApplyLocking ==
    /\ ReplacedFree(syncList)
    /\ ResyncApply

NextEntityLock ==
    \/ \E c \in Callers, n \in LogicalNames : CreateCheck(c, n)
    \/ \E c \in Callers : CreateRemote(c)
    \/ \E c \in Callers : CreateInsert(c)
    \/ \E c \in Callers, h \in 1..MaxStores, k \in Keys, v \in Vals : UpsertLock(c, h, k, v)
    \/ \E c \in Callers : UpsertWrite(c)
    \/ \E c \in Callers, h \in 1..MaxStores, k \in Keys : DeleteLock(c, h, k)
    \/ \E c \in Callers : DeleteWrite(c)
    \/ \E c \in Callers, h \in 1..MaxStores, k \in Keys : GetUnlocked(c, h, k)
    \/ \E c \in Callers, h \in 1..MaxStores : GetConfigMapUnlocked(c, h)
    \/ \E c \in Callers, h \in 1..MaxStores : CommitUpdateUnlocked(c, h)
    \/ \E c \in Callers : CommitSyncLocking(c)
    \/ \E n \in LogicalNames : InformerObserve(QualifiedName(n))
    \/ ResyncList
    \/ ResyncApplyLocking

SpecEntityLock == Init /\ [][NextEntityLock]_vars

\* C24: a Get, a GetConfigMap or a Commit reads the object of a handle only
\* while no other goroutine holds the handle's lock, that is, while no Upsert
\* and no Delete is in the middle of changing it.
C24_ReadsExcluded ==
    [][(last' # last /\ last'.op \in {"Get", "GetConfigMap", "Commit.update"})
          => EntityLockFree(last'.h)]_vars

----------------------------------------------------------------------------
(* SpecShutdown: SpecLifecycle with the stop channel of                     *)
(* NewConfigMapStoreManager.  The application closes stopCh; the informer   *)
(* stops filling its cache, a handler that runs goes on to its end, a       *)
(* notification that was queued can still reach the handler, and then       *)
(* informer.Run returns.                                                    *)

(* The application closes stopCh. *)
StopSignal ==
    /\ UNCHANGED localMaps
    /\ phase \in {"idle", "listed"}
    /\ phase' = IF phase = "idle" THEN "closing" ELSE "closing_listed"
    /\ last' = Op("close(stopCh)")
    /\ UNCHANGED <<cms, stores, LocalMaps, syncList, remote, rvClock, indexer,
                   pending, lock, pc, loc>>

(* informer.Run(stopCh) returns, lines 82-83: it has waited for the handler
   that was running. *)
InformerReturn ==
    /\ UNCHANGED localMaps
    /\ phase = "closing"
    /\ phase' = "stopped"
    /\ UNCHANGED <<cms, stores, LocalMaps, syncList, last, remote, rvClock,
                   indexer, pending, lock, pc, loc>>

(* The informer fills its cache as long as stopCh is open. *)
InformerObserveRunning(qn) ==
    /\ phase \in {"idle", "listed"}
    /\ InformerObserve(qn)

NextShutdown ==
    \/ \E c \in LifecycleCallers, n \in LogicalNames : CreateCheck(c, n)
    \/ \E c \in LifecycleCallers : CreateRemote(c)
    \/ \E c \in LifecycleCallers : CreateInsert(c)
    \/ \E c \in LifecycleCallers, n \in LogicalNames : DeleteCheck(c, n)
    \/ \E c \in LifecycleCallers : DeleteRemote(c)
    \/ \E c \in LifecycleCallers : DeleteUnregister(c)
    \/ \E c \in LifecycleCallers, h \in 1..MaxStores : CommitUpdate(c, h)
    \/ \E c \in LifecycleCallers : CommitSync(c)
    \/ \E o \in ExternalObjects : RemoteCreate(o)
    \/ \E n \in LogicalNames : RemoteDelete(QualifiedName(n))
    \/ \E qn \in ObjectNames : InformerObserveRunning(qn)
    \/ ResyncList
    \/ ResyncApply
    \/ StopSignal
    \/ InformerReturn

SpecShutdown == Init /\ [][NextShutdown]_vars

----------------------------------------------------------------------------
(* Claims about the stop signal (SpecShutdown) *)

\* the step changes the registry: its keys, their handles, or the object a
\* handle caches
RegistryChanges == <<LocalMaps, stores>>' # <<LocalMaps, stores>>

====
